---- MODULE Spec2Model ----
(***************************************************************************)
(* TaggerModel (mmworkbench/models/tagger_models.py): the training,        *)
(* prediction, evaluation and pickling lifecycle of one instance, as a     *)
(* state machine.  Each action is one whole method call made by the        *)
(* caller while no call is in progress; the variables `call` and `ret`     *)
(* record the call's arguments, what it handed to its collaborators, and   *)
(* what it returned or raised, until the caller takes the result.          *)
(***************************************************************************)
EXTENDS Naturals, Sequences, FiniteSets, Bags

VARIABLES
    config,           \* self.config
    _no_entities,     \* self._no_entities
    _clf,             \* self._clf
    _label_encoder,   \* self._label_encoder
    _current_params,  \* self._current_params
    _resources,       \* self._resources: the set of <<key, value>> entries
    types,            \* self.types
    call,             \* the call just made and what its collaborators saw
    ret,              \* what that call returned or raised
    last_fit,         \* history: how the latest fit call ended
    pickled           \* history: __getstate__ has been called on the instance

vars == <<config, _no_entities, _clf, _label_encoder, _current_params,
          _resources, types, call, ret, last_fit, pickled>>

(* ---------------------------------------------------------------------- *)
(* Bounds and input domains                                                *)
(* ---------------------------------------------------------------------- *)

\* Longest examples / labels list a call is given.
MaxLen == 2

\* The i-th opaque query.
Query(i) == <<"query", i>>

\* Entity types an annotation may carry.
EntityTypes == {"X"}

\* A label: the tuple of one query's entity annotations, each abstracted to
\* its entity.entity.type.
LabelSet == {<<>>} \cup {<<t>> : t \in EntityTypes}

SeqsUpTo(S, n) == UNION {[1..k -> S] : k \in 0..n}

\* Lists of distinct queries, and lists that repeat one query.
ExampleLists ==
    {[i \in 1..n |-> Query(i)] : n \in 0..MaxLen}
        \cup {[i \in 1..n |-> Query(1)] : n \in 0..MaxLen}

LabelLists == SeqsUpTo(LabelSet, MaxLen)

\* Python values: None, and a dict as its set of <<key, value>> items.
PyNone == [isNone |-> TRUE, dict |-> {}]

PyDict(items) == [isNone |-> FALSE, dict |-> items]

\* Python truthiness of an optional dict: None and {} are falsy.
Truthy(p) == ~p.isNone /\ p.dict # {}

\* The params arguments a caller passes to fit.
ParamArgs == {PyNone, PyDict({}), PyDict({<<"C", "ten">>})}

\* The hyperparameter settings a cross-validated search may select.
ParamGrid == {PyDict({<<"C", "hundred">>}), PyDict({<<"C", "thousand">>})}

\* The configurations a TaggerModel is constructed with.
Configs ==
    [classifier_type : {"memm", "crf", "nonexistent"},
     params          : {PyNone, PyDict({<<"C", "one">>})},
     param_selection : {PyNone, PyDict({<<"type", "k-folds">>})}]

\* The resources an instance may hold when the calls start.
ResourceEntries == {<<"sys_types", "S">>, <<"gazetteers", "G">>}

\* The tag sequences a classifier may predict for one example.
TagSeqs == {<<>>} \cup {<<[tag |-> "B", type |-> t]>> : t \in EntityTypes}

(* ---------------------------------------------------------------------- *)
(* Program constants and values                                            *)
(* ---------------------------------------------------------------------- *)

MEMM_TYPE == "memm"

CRF_TYPE == "crf"

NoClf == [type |-> "None", params |-> PyNone, fitted |-> FALSE]

NoCall ==
    [op |-> "idle", examples |-> <<>>, labels |-> <<>>, params |-> PyNone,
     enc_examples |-> <<>>, enc_labels |-> <<>>, encoded |-> FALSE,
     used_clf |-> FALSE, clf_resources |-> {}, had_resources |-> {},
     searched |-> FALSE, best_params |-> PyNone, predicted_tags |-> <<>>]

Returned(kind, value) == [kind |-> kind, value |-> value]

Raised(exc, args) == [kind |-> "raise", value |-> [exc |-> exc, args |-> args]]

(* ---------------------------------------------------------------------- *)
(* Construction                                                            *)
(* ---------------------------------------------------------------------- *)

\* __init__: no check of classifier_type; the degenerate flag starts False.
Init ==
    /\ config \in Configs
    /\ _no_entities = FALSE
    /\ _clf = NoClf
    /\ _label_encoder = "None"
    /\ _current_params = PyNone
    /\ _resources \in SUBSET ResourceEntries
    /\ types = <<>>
    /\ call = NoCall
    /\ ret = Returned("constructed", "TaggerModel")
    /\ last_fit = "none"
    /\ pickled = FALSE

(* ---------------------------------------------------------------------- *)
(* The caller                                                              *)
(* ---------------------------------------------------------------------- *)

\* No call is in progress: the caller may call a method.
Idle == call.op = "idle"

\* The caller takes the result of the call it made.
TakeResult ==
    /\ ~Idle
    /\ call' = NoCall
    /\ ret' = Returned("taken", "None")
    /\ UNCHANGED <<config, _no_entities, _clf, _label_encoder, _current_params,
                   _resources, types, last_fit, pickled>>

(* ---------------------------------------------------------------------- *)
(* fit                                                                     *)
(* ---------------------------------------------------------------------- *)

\* indices = list(range(len(labels))); random.shuffle(indices): every
\* ordering of the n indices.
ShuffledIndices(n) ==
    {p \in [1..n -> 1..n] : \A i, j \in 1..n : p[i] = p[j] => i = j}

\* skip_param_selection = params is not None or self.config.param_selection is None
SkipParamSelection(params, cfg) == ~params.isNone \/ cfg.param_selection.isNone

\* Variant: params = params if params is not None else self.config.params
EffectiveParamsIfNotNone(params, cfg) == IF ~params.isNone THEN params ELSE cfg.params

\* params = params or self.config.params
EffectiveParams(params, cfg) == IF Truthy(params) THEN params ELSE cfg.params

\* [examples[i] for i in indices] raises IndexError when an index is out of range.
IndexInRange(seq, indices) == \A k \in 1..Len(indices) : indices[k] \in 1..Len(seq)

\* Variant: the examples are cut to the labels' length and left in their order.
ExamplesUnshuffled(examples, indices) == [k \in 1..Len(indices) |-> examples[k]]

\* examples = [examples[i] for i in indices]
ShuffleExamples(examples, indices) == [k \in 1..Len(indices) |-> examples[indices[k]]]

\* labels = [labels[i] for i in indices]
ShuffleLabels(labels, indices) == [k \in 1..Len(indices) |-> labels[indices[k]]]

RECURSIVE Flatten(_)
Flatten(ls) == IF ls = <<>> THEN <<>> ELSE Head(ls) \o Flatten(Tail(ls))

\* types = [entity.entity.type for label in labels for entity in label]
EntityTypesOf(labels) == Flatten(labels)

\* len(set(types)) == 0
NoDistinctTypes(ts) == Cardinality({ts[k] : k \in 1..Len(ts)}) = 0

\* The keys of the dict in _get_model_constructor.
ModelConstructors == {MEMM_TYPE, CRF_TYPE}

\* Variant: a lookup with a default, dict.get(classifier_type, MemmModel).
KnownOrDefaultClassifier(classifier_type) == TRUE

\* The dict lookup succeeds (no KeyError).
KnownClassifier(classifier_type) == classifier_type \in ModelConstructors

\* raise ValueError(msg.format(self.__class__.__name__, classifier_type))
UnknownClassifierError(classifier_type) ==
    Raised("ValueError", <<"TaggerModel", classifier_type>>)

\* self._clf = self._get_model_constructor()(): a classifier not yet fitted.
NewClf(classifier_type) ==
    [type |-> classifier_type, params |-> PyNone, fitted |-> FALSE]

\* self._clf.set_params(**params): ** of None is a TypeError.
CanSetParams(params) == ~params.isNone

\* self._clf = self._fit(X, y, params): set_params(**params), then fit(X, y).
FittedClf(classifier_type, params) ==
    [type |-> classifier_type, params |-> params, fitted |-> TRUE]

FitCall(examples, labels, params) ==
    [NoCall EXCEPT !.op = "fit", !.examples = examples, !.labels = labels,
                   !.params = params]

Fit(examples, labels, params, indices, best_params) ==
    LET skip_param_selection == SkipParamSelection(params, config)
        eff_params == EffectiveParams(params, config)
        c0 == FitCall(examples, labels, params)
    IN
    /\ UNCHANGED <<config, _resources, pickled>>
    /\ IF ~IndexInRange(examples, indices)
       THEN \* IndexError in the list comprehension, before any assignment
            /\ ret' = Raised("IndexError", <<>>)
            /\ call' = c0
            /\ last_fit' = "raised"
            /\ UNCHANGED <<_no_entities, _clf, _label_encoder, _current_params,
                           types>>
       ELSE
       LET ex == ShuffleExamples(examples, indices)
           lb == ShuffleLabels(labels, indices)
           ts == EntityTypesOf(lb)
       IN
       /\ types' = ts
       /\ IF NoDistinctTypes(ts)
          THEN /\ _no_entities' = TRUE
               /\ ret' = Returned("self", "TaggerModel")
               /\ call' = c0
               /\ last_fit' = "degenerate"
               /\ UNCHANGED <<_clf, _label_encoder, _current_params>>
          ELSE
          /\ UNCHANGED _no_entities
          /\ IF ~KnownClassifier(config.classifier_type)
             THEN /\ ret' = UnknownClassifierError(config.classifier_type)
                  /\ call' = c0
                  /\ last_fit' = "raised"
                  /\ UNCHANGED <<_clf, _label_encoder, _current_params>>
             ELSE
             LET c1 == [c0 EXCEPT !.enc_examples = ex, !.enc_labels = lb,
                                  !.encoded = TRUE, !.used_clf = TRUE,
                                  !.clf_resources = _resources]
             IN
             /\ _label_encoder' = "encoder"
             /\ IF skip_param_selection
                THEN IF CanSetParams(eff_params)
                     THEN /\ _clf' = FittedClf(config.classifier_type, eff_params)
                          /\ _current_params' = eff_params
                          /\ call' = c1
                          /\ ret' = Returned("self", "TaggerModel")
                          /\ last_fit' = "trained"
                     ELSE /\ _clf' = NewClf(config.classifier_type)
                          /\ UNCHANGED _current_params
                          /\ call' = c1
                          /\ ret' = Raised("TypeError", <<>>)
                          /\ last_fit' = "raised"
                ELSE \* _fit_cv selects best_params
                     /\ _clf' = FittedClf(config.classifier_type, best_params)
                     /\ _current_params' = best_params
                     /\ call' = [c1 EXCEPT !.searched = TRUE,
                                           !.best_params = best_params]
                     /\ ret' = Returned("self", "TaggerModel")
                     /\ last_fit' = "trained"

\* The outcomes a cross-validated search may have for this call: only a call
\* that searches draws one.
SearchOutcomes(params) ==
    IF SkipParamSelection(params, config) THEN {PyNone} ELSE ParamGrid

DoFit ==
    /\ Idle
    /\ \E examples \in ExampleLists, labels \in LabelLists, params \in ParamArgs :
        \E indices \in ShuffledIndices(Len(labels)),
           best_params \in SearchOutcomes(params) :
            Fit(examples, labels, params, indices, best_params)

(* ---------------------------------------------------------------------- *)
(* predict                                                                 *)
(* ---------------------------------------------------------------------- *)

\* self._label_encoder.decode([tags], examples=[example])[0]: the entities the
\* tags spell out, resolved against the example.
Decode(tags, example) ==
    [k \in 1..Len(tags) |-> [type |-> tags[k].type, query |-> example]]

Min(a, b) == IF a <= b THEN a ELSE b

\* Variant: every tag sequence is decoded against the last example.
DecodeAllAgainstLast(predicted_tags, examples) ==
    [i \in 1..Min(Len(predicted_tags), Len(examples)) |->
        Decode(predicted_tags[i], examples[Len(examples)])]

\* [decode(...) for example_predicted_tags, example in zip(predicted_tags, examples)]
DecodeAll(predicted_tags, examples) ==
    [i \in 1..Min(Len(predicted_tags), Len(examples)) |->
        Decode(predicted_tags[i], examples[i])]

\* Variant: return [()] * len(examples)
DegeneratePredictionPerExample(examples) == [i \in 1..Len(examples) |-> <<>>]

\* if self._no_entities: return [()]
DegeneratePrediction(examples) == << <<>> >>

\* if self._no_entities: the guard of predict and of evaluate.
ShortCircuits == _no_entities

\* What predict returns or raises, and the tags the classifier gave it.
\* clf_out is what extract_and_predict does: "AttributeError" when there is no
\* classifier, else a tag sequence per example, or "error" from a classifier
\* that was created and never fitted.
PredictOutcome(examples, clf_out) ==
    IF ShortCircuits
    THEN [result |-> Returned("list", DegeneratePrediction(examples)),
          used_clf |-> FALSE, tags |-> <<>>]
    ELSE IF clf_out.kind = "raise"
    THEN [result |-> clf_out, used_clf |-> _clf # NoClf, tags |-> <<>>]
    ELSE [result |-> Returned("list", DecodeAll(clf_out.value, examples)),
          used_clf |-> TRUE, tags |-> clf_out.value]

\* The behaviours of self._clf.extract_and_predict(examples, ...).
ClfOutcomes(examples) ==
    IF ShortCircuits THEN {Returned("unused", <<>>)}
    ELSE IF _clf = NoClf THEN {Raised("AttributeError", <<>>)}
    ELSE {Returned("tags", t) : t \in [1..Len(examples) -> TagSeqs]}
         \cup (IF _clf.fitted THEN {} ELSE {Raised("NotFittedError", <<>>)})

PredictCall(op, examples, labels, out) ==
    [NoCall EXCEPT !.op = op, !.examples = examples, !.labels = labels,
                   !.used_clf = out.used_clf,
                   !.clf_resources = IF out.used_clf THEN _resources ELSE {},
                   !.predicted_tags = out.tags]

Predict(examples, clf_out) ==
    LET out == PredictOutcome(examples, clf_out)
    IN
    /\ ret' = out.result
    /\ call' = PredictCall("predict", examples, <<>>, out)
    /\ UNCHANGED <<config, _no_entities, _clf, _label_encoder, _current_params,
                   _resources, types, last_fit, pickled>>

DoPredict ==
    /\ Idle
    /\ \E examples \in ExampleLists :
        \E clf_out \in ClfOutcomes(examples) : Predict(examples, clf_out)

(* ---------------------------------------------------------------------- *)
(* evaluate                                                                *)
(* ---------------------------------------------------------------------- *)

\* EvaluatedExample(e, labels[i], predictions[i], None, self.config.label_type)
EvaluatedExample(example, expected, predicted) ==
    [example |-> example, expected |-> expected, predicted |-> predicted]

\* Variant: expected and predicted labels passed in each other's place.
EvaluationsSwapped(examples, labels, predictions) ==
    [i \in 1..Len(examples) |->
        EvaluatedExample(examples[i], predictions[i], labels[i])]

\* [EvaluatedExample(e, labels[i], predictions[i], ...) for i, e in enumerate(examples)]
Evaluations(examples, labels, predictions) ==
    [i \in 1..Len(examples) |->
        EvaluatedExample(examples[i], labels[i], predictions[i])]

\* labels[i] and predictions[i] exist for every i of enumerate(examples).
EvaluationsInRange(examples, labels, predictions) ==
    Len(labels) >= Len(examples) /\ Len(predictions) >= Len(examples)

\* self._get_effective_config(): the configuration annotated with the
\* hyperparameters the last fit stored.
EffectiveConfig == [config EXCEPT !.params = _current_params]

\* EntityModelEvaluation(config, evaluations)
EntityModelEvaluation(cfg, evaluations) ==
    Returned("report", [config |-> cfg, results |-> evaluations])

Evaluate(examples, labels, clf_out) ==
    LET out == PredictOutcome(examples, clf_out)
    IN
    /\ UNCHANGED <<config, _no_entities, _clf, _label_encoder, _current_params,
                   _resources, types, last_fit, pickled>>
    /\ IF ShortCircuits
       THEN /\ ret' = Returned("None", "None")
            /\ call' = [NoCall EXCEPT !.op = "evaluate", !.examples = examples,
                                      !.labels = labels]
       ELSE
       /\ call' = PredictCall("evaluate", examples, labels, out)
       /\ IF out.result.kind = "raise"
          THEN ret' = out.result
          ELSE IF ~EvaluationsInRange(examples, labels, out.result.value)
          THEN ret' = Raised("IndexError", <<>>)
          ELSE ret' = EntityModelEvaluation(
                          EffectiveConfig,
                          Evaluations(examples, labels, out.result.value))

DoEvaluate ==
    /\ Idle
    /\ \E examples \in ExampleLists, labels \in LabelLists :
        \E clf_out \in ClfOutcomes(examples) :
            Evaluate(examples, labels, clf_out)

(* ---------------------------------------------------------------------- *)
(* __getstate__                                                            *)
(* ---------------------------------------------------------------------- *)

\* resources_to_persist = set(['sys_types'])
resources_to_persist == {"sys_types"}

\* Variant: the test inverted, if key in resources_to_persist: del ...
PrunedResourcesInverted(resources) ==
    {e \in resources : e[1] \notin resources_to_persist}

\* for key in list(attributes['_resources'].keys()):
\*     if key not in resources_to_persist: del attributes['_resources'][key]
PrunedResources(resources) == {e \in resources : e[1] \in resources_to_persist}

\* Variant: a deep copy, which leaves the instance's own dict as it was.
LiveResourcesCopied(resources) == resources

\* attributes = self.__dict__.copy() is shallow: attributes['_resources'] is
\* the instance's own dict, so the deletions show on the instance.
LiveResources(resources) == PrunedResources(resources)

\* The attribute dict __getstate__ returns.
Attributes(resources) ==
    [config |-> config, _clf |-> _clf, _label_encoder |-> _label_encoder,
     _current_params |-> _current_params, _no_entities |-> _no_entities,
     types |-> types, _resources |-> resources]

GetState ==
    /\ Idle
    /\ ret' = Returned("state", Attributes(PrunedResources(_resources)))
    /\ _resources' = LiveResources(_resources)
    /\ call' = [NoCall EXCEPT !.op = "getstate", !.had_resources = _resources]
    /\ pickled' = TRUE
    /\ UNCHANGED <<config, _no_entities, _clf, _label_encoder, _current_params,
                   types, last_fit>>

(* ---------------------------------------------------------------------- *)
(* Specification                                                           *)
(* ---------------------------------------------------------------------- *)

Next ==
    \/ DoFit
    \/ DoPredict
    \/ DoEvaluate
    \/ GetState
    \/ TakeResult

Spec == Init /\ [][Next]_vars

(* ---------------------------------------------------------------------- *)
(* Vocabulary of the properties                                            *)
(* ---------------------------------------------------------------------- *)

\* Some label of the list carries at least one entity annotation.
HasEntityType(labels) == \E i \in 1..Len(labels) : Len(labels[i]) > 0

\* The call just made was `op` and its result has not been taken yet.
Called(op) == call.op = op

\* Classifier trained and stored, label encoder stored.
Trained == _clf.fitted /\ _clf.params = _current_params /\ _label_encoder = "encoder"

\* The FIT state of predict and evaluate: a trained classifier, flag not set.
FitState == Trained /\ ~_no_entities

ReturnedSelf == ret = Returned("self", "TaggerModel")

\* How often pair p occurs among the pairs <<xs[i], ys[i]>>.
PairCount(xs, ys, p) == Cardinality({i \in 1..Len(xs) : <<xs[i], ys[i]>> = p})

(* ---------------------------------------------------------------------- *)
(* C1                                                                      *)
(* ---------------------------------------------------------------------- *)

\* C1: predict and evaluate are decided by the most recent fit alone: after a
\* latest fit that trained they take the classifier path, after a latest fit
\* that was degenerate they short-circuit.
C1_LatestFitDecides ==
    (Called("predict") \/ Called("evaluate")) =>
        /\ last_fit = "trained" => call.used_clf /\ ret.kind \in {"list", "report", "raise"}
        /\ last_fit = "degenerate" => ~call.used_clf

(* ---------------------------------------------------------------------- *)
(* C2                                                                      *)
(* ---------------------------------------------------------------------- *)

\* A fit call on equal-length inputs with an entity type, under a
\* configuration with a known classifier type.
C2_Case ==
    /\ Called("fit")
    /\ Len(call.examples) = Len(call.labels)
    /\ HasEntityType(call.labels)
    /\ config.classifier_type \in {"memm", "crf"}

\* C2 as stated: such a fit ends in the FIT state with _current_params equal
\* to the params argument whenever one was given (any non-None value), and to
\* the best params of the search whenever none was given.  (Stated for
\* configurations whose own params is a dict.)
C2_ParamsGivenOrSearched ==
    (C2_Case /\ ~config.params.isNone) =>
        /\ ReturnedSelf /\ Trained
        /\ IF ~call.params.isNone
           THEN _current_params = call.params
           ELSE call.searched /\ _current_params = call.best_params

\* C2 amended: a non-empty params argument is stored; an empty or absent one
\* falls back to config.params when the search is skipped (params is not None
\* or no param_selection), where a config.params of None makes fit raise
\* TypeError in place of training; only an absent params argument under a
\* param_selection policy stores the params the search selected.
C2_CurrentParams ==
    C2_Case =>
        IF Truthy(call.params)
        THEN ReturnedSelf /\ Trained /\ ~call.searched
             /\ _current_params = call.params
        ELSE IF ~call.params.isNone \/ config.param_selection.isNone
        THEN IF config.params.isNone
             THEN ret = Raised("TypeError", <<>>) /\ ~_clf.fitted
             ELSE ReturnedSelf /\ Trained /\ ~call.searched
                  /\ _current_params = config.params
        ELSE ReturnedSelf /\ Trained /\ call.searched
             /\ call.best_params \in ParamGrid
             /\ _current_params = call.best_params

\* fit(params={}) under a param_selection policy stored config.params.
C2_Witness ==
    /\ C2_Case
    /\ call.params = PyDict({})
    /\ ~config.param_selection.isNone
    /\ ReturnedSelf
    /\ _current_params = config.params

(* ---------------------------------------------------------------------- *)
(* C3                                                                      *)
(* ---------------------------------------------------------------------- *)

C5_MismatchNeverTrains ==
    (Called("fit") /\ Len(call.examples) # Len(call.labels)) =>
        ~(ret.kind = "self" /\ call.encoded)

(* ---------------------------------------------------------------------- *)
(* C6                                                                      *)
(* ---------------------------------------------------------------------- *)

\* The pairs of two aligned lists.
PairsOf(xs, ys) == {<<xs[i], ys[i]>> : i \in 1..Len(xs)}

\* C6: on equal-length inputs, what fit hands to the label encoder and the
\* feature extractor is a joint permutation of the input: as many examples and
\* labels as given, and every (example, label) pair as often as in the input.
C6_JointPermutation ==
    (Called("fit") /\ call.encoded /\ Len(call.examples) = Len(call.labels)) =>
        /\ Len(call.enc_examples) = Len(call.examples)
        /\ Len(call.enc_labels) = Len(call.labels)
        /\ \A p \in PairsOf(call.examples, call.labels)
                      \cup PairsOf(call.enc_examples, call.enc_labels) :
               PairCount(call.enc_examples, call.enc_labels, p)
                   = PairCount(call.examples, call.labels, p)

\* A fit whose shuffle moved two different pairs.
C6_Witness ==
    /\ Called("fit")
    /\ call.encoded
    /\ Len(call.examples) = Len(call.labels)
    /\ Len(call.examples) >= 2
    /\ call.enc_examples # call.examples
    /\ call.enc_labels # call.labels

(* ---------------------------------------------------------------------- *)
(* C7                                                                      *)
(* ---------------------------------------------------------------------- *)

\* C7: the state __getstate__ returns holds every attribute with the
\* instance's value, and a _resources with exactly the entries the instance
\* had under an allow-listed key (sys_types), values unchanged.
C7_PersistedState ==
    Called("getstate") =>
        /\ ret.kind = "state"
        /\ ret.value.config = config
        /\ ret.value._clf = _clf
        /\ ret.value._label_encoder = _label_encoder
        /\ ret.value._current_params = _current_params
        /\ ret.value._no_entities = _no_entities
        /\ \A e \in ret.value._resources :
               e \in call.had_resources /\ e[1] = "sys_types"
        /\ \A e \in call.had_resources :
               e[1] = "sys_types" => e \in ret.value._resources

\* A trained instance holding both resources was persisted.
C7_Witness ==
    /\ Called("getstate")
    /\ call.had_resources = ResourceEntries
    /\ ret.value._resources = {<<"sys_types", "S">>}
    /\ ret.value._clf.fitted

(* ---------------------------------------------------------------------- *)
(* C8                                                                      *)
(* ---------------------------------------------------------------------- *)

\* C8: a predict call made in the FIT state returns one label sequence per
\* example, the i-th being the decoding of the classifier's i-th tag sequence
\* against examples[i], and changes none of the instance's attributes.
C8_PredictInFitState ==
    [][(FitState /\ Idle /\ call'.op = "predict") =>
          /\ ret'.kind = "list"
          /\ Len(ret'.value) = Len(call'.examples)
          /\ Len(call'.predicted_tags) = Len(call'.examples)
          /\ \A i \in 1..Len(call'.examples) :
                 ret'.value[i] = Decode(call'.predicted_tags[i], call'.examples[i])
          /\ UNCHANGED <<config, _clf, _label_encoder, _current_params,
                         _no_entities, _resources, types>>]_vars

\* predict on two different examples, each with predicted entities.
C8_Witness ==
    /\ Called("predict")
    /\ call.used_clf
    /\ ret.kind = "list"
    /\ Len(call.examples) = 2
    /\ call.examples[1] # call.examples[2]
    /\ Len(ret.value[1]) > 0
    /\ Len(ret.value[2]) > 0

(* ---------------------------------------------------------------------- *)
(* C9                                                                      *)
(* ---------------------------------------------------------------------- *)

\* C9: evaluate in the FIT state on equal-length inputs returns a report with
\* one record per example, the i-th holding examples[i], labels[i] and the
\* i-th prediction, and the configuration with params = _current_params.
C9_Report ==
    (Called("evaluate") /\ FitState /\ Len(call.examples) = Len(call.labels)) =>
        /\ ret.kind = "report"
        /\ Len(ret.value.results) = Len(call.examples)
        /\ \A i \in 1..Len(call.examples) :
               /\ ret.value.results[i].example = call.examples[i]
               /\ ret.value.results[i].expected = call.labels[i]
               /\ ret.value.results[i].predicted
                      = Decode(call.predicted_tags[i], call.examples[i])
        /\ ret.value.config.params = _current_params
        /\ ret.value.config.classifier_type = config.classifier_type
        /\ ret.value.config.param_selection = config.param_selection

\* A report over two examples whose expected and predicted labels differ.
C9_Witness ==
    /\ Called("evaluate")
    /\ FitState
    /\ ret.kind = "report"
    /\ Len(call.examples) = 2
    /\ Len(ret.value.results) = 2
    /\ call.labels[1] # call.labels[2]
    /\ Len(ret.value.results[1].predicted) > 0
    /\ Len(ret.value.results[2].expected) > 0
    /\ _current_params # config.params

(* ---------------------------------------------------------------------- *)
(* C10                                                                     *)
(* ---------------------------------------------------------------------- *)

\* C10: once __getstate__ has been called, the live instance's _resources
\* holds no key other than sys_types, and a later fit or predict hands the
\* classifier those pruned resources.
C10_LiveResourcesPruned ==
    pickled =>
        /\ \A e \in _resources : e[1] = "sys_types"
        /\ call.used_clf =>
               /\ call.clf_resources = _resources
               /\ \A e \in call.clf_resources : e[1] = "sys_types"
        /\ Called("getstate") =>
               _resources = {e \in call.had_resources : e[1] = "sys_types"}

\* __getstate__ removed an entry from the live instance.
C10_Witness ==
    /\ Called("getstate")
    /\ <<"gazetteers", "G">> \in call.had_resources
    /\ <<"sys_types", "S">> \in call.had_resources
    /\ _resources = {<<"sys_types", "S">>}

====
